---- MODULE Spec2Model ----
(***************************************************************************)
(* Watchlist server actions (src/lib/actions/watchlist.actions.ts) and     *)
(* the WatchlistTable component (src/components/WatchlistTable.tsx).       *)
(*                                                                         *)
(* Every server action is an async function: it runs synchronously up to   *)
(* its first await, and every await is a point where other invocations can *)
(* run.  An invocation is a record in `calls`; its field pc is the await it *)
(* is suspended at.  The store (the Watchlist collection) executes each     *)
(* single-document operation atomically.                                   *)
(*                                                                         *)
(* Strings that the code transforms character by character (the symbol)    *)
(* are sequences of one-character strings; <<>> is the empty string.       *)
(* Numbers coming from the market-data API are integers in thousandths.    *)
(***************************************************************************)
EXTENDS Integers, Sequences, FiniteSets, TLC

VARIABLES
    store,      \* the Watchlist collection, in insertion order
    now,        \* the clock read by the addedAt default
    storeUp,    \* whether the database answers (connection and queries)
    token,      \* FINNHUB_API_KEY ?? NEXT_PUBLIC_FINNHUB_API_KEY
    market,     \* what the market-data API serves for each symbol
    calls,      \* the invocations of the server actions, by slot
    nops,       \* number of invocations started so far
    items,      \* WatchlistTable: useState(watchlist)
    removing,   \* WatchlistTable: useState<string | null>(null)
    handlers,   \* WatchlistTable: the running handleRemove invocations
    toasts      \* the notifications shown so far, oldest first

vars == <<store, now, storeUp, token, market, calls, nops, items, removing, handlers, toasts>>

envVars == <<now, storeUp, token, market>>
viewVars == <<items, removing, handlers, toasts>>

(* Bounds of the model. *)

MaxCalls == 2       \* server-action invocations that can be in flight together
MaxOps == 3         \* invocations started in one behaviour
MaxClock == 1       \* the clock runs over 0..MaxClock

CallIds == 1..MaxCalls

(* Inputs. *)

NoToken == ""
UserInputs == {"", "u1", "u2"}
SymbolInputs == {<<>>, <<"a", "b">>, <<"A", "B">>, <<"x">>, <<"U+00DF">>, <<"s", "s">>}

(* The arguments the callers pass: every way of leaving a field empty, two *)
(* users, two spellings of one symbol, and a second symbol spelt with the  *)
(* sharp s (U+00DF) and with "ss", which have the same capitals.           *)
AddInputs ==
    { <<"u1", <<"a", "b">>, "Apple Inc">>, <<"u1", <<"A", "B">>, "Acme">>,
      <<"u1", <<"U+00DF">>, "Acme">>, <<"u2", <<"a", "b">>, "Apple Inc">>,
      <<"", <<"a", "b">>, "Apple Inc">>, <<"u1", <<>>, "Apple Inc">>, <<"u1", <<"x">>, "">> }

RemoveInputs ==
    { <<"u1", <<"a", "b">>>>, <<"u1", <<"A", "B">>>>, <<"u1", <<"s", "s">>>>, <<"u2", <<"A", "B">>>>,
      <<"", <<"x">>>>, <<"u1", <<>>>> }

(* String.prototype.toUpperCase.  A string is the sequence of its          *)
(* characters; an ASCII character is written as itself and a character     *)
(* outside ASCII by its code point.  The mapping follows Unicode: a letter *)
(* goes to its capital, which for some characters is another letter's      *)
(* capital or more than one character, so the length of the string may     *)
(* grow.  The characters of the model are ASCII and the ones named here;   *)
(* a character without a capital is left as it is.                         *)

LowerLetters == <<"a", "b", "c", "d", "e", "f", "g", "h", "i", "j", "k", "l", "m",
                  "n", "o", "p", "q", "r", "s", "t", "u", "v", "w", "x", "y", "z">>
UpperLetters == <<"A", "B", "C", "D", "E", "F", "G", "H", "I", "J", "K", "L", "M",
                  "N", "O", "P", "Q", "R", "S", "T", "U", "V", "W", "X", "Y", "Z">>

SharpS == "U+00DF"
SmallEAcute == "U+00E9"
CapitalEAcute == "U+00C9"
DotlessI == "U+0131"
LigatureFi == "U+FB01"

(* The capitals of the characters outside ASCII. *)
SpecialCasing ==
    { <<SharpS, <<"S", "S">> >>, <<SmallEAcute, <<CapitalEAcute>> >>,
      <<DotlessI, <<"I">> >>, <<LigatureFi, <<"F", "I">> >> }

(* The characters one character is turned into. *)
UpperChar(c) ==
    IF \E i \in 1..Len(LowerLetters) : LowerLetters[i] = c
    THEN <<UpperLetters[CHOOSE i \in 1..Len(LowerLetters) : LowerLetters[i] = c]>>
    ELSE IF \E m \in SpecialCasing : m[1] = c
         THEN (CHOOSE m \in SpecialCasing : m[1] = c)[2]
         ELSE <<c>>

RECURSIVE ToUpperCase(_)
ToUpperCase(s) == IF s = <<>> THEN <<>> ELSE UpperChar(Head(s)) \o ToUpperCase(Tail(s))

(* Values of the loosely typed upstream JSON: a number or undefined, a     *)
(* string or undefined.  A number v stands for v / 1000.                  *)

Num(v) == [def |-> TRUE, val |-> v]
UndefinedNum == [def |-> FALSE, val |-> 0]
Str(s) == [def |-> TRUE, val |-> s]
UndefinedStr == [def |-> FALSE, val |-> ""]

(* JavaScript truthiness of a number or undefined: 0 and undefined are falsy. *)
Truthy(n) == n.def /\ n.val # 0

Digit(d) ==
    CASE d = 0 -> "0" [] d = 1 -> "1" [] d = 2 -> "2" [] d = 3 -> "3" [] d = 4 -> "4"
      [] d = 5 -> "5" [] d = 6 -> "6" [] d = 7 -> "7" [] d = 8 -> "8" [] d = 9 -> "9"

RECURSIVE NatToString(_)
NatToString(n) == IF n < 10 THEN Digit(n) ELSE NatToString(n \div 10) \o Digit(n % 10)

(* The number num / den of the code is the IEEE double nearest to it.     *)
(* Where num / den lies halfway between two hundredths, it is m / 200 with *)
(* m odd, and the double is M * 2^(-s) with M the integer nearest to       *)
(* m * 2^s / 25, for the s that puts M in [2^52, 2^53): the double lies    *)
(* below the halfway point when (m * 2^s) % 25 is under 25 / 2, above it   *)
(* when over, and on it when m is a multiple of 25.                        *)

(* floor(log2(m / 200)), m > 0. *)
RECURSIVE Exponent(_)
Exponent(m) ==
    IF m >= 400 THEN Exponent(m \div 2) + 1
    ELSE IF m < 200 THEN Exponent(2 * m) - 1
    ELSE 0

(* 2^s % 25, s >= 0: the powers of 2 repeat modulo 25 every 20. *)
TwoPowerMod25(s) ==
    <<1, 2, 4, 8, 16, 7, 14, 3, 6, 12, 24, 23, 21, 17, 9, 18, 11, 22, 19, 13>>[(s % 20) + 1]

(* Whether the double nearest to m / 200 is that number or above it. *)
DoubleNotBelow(m) ==
    LET r == ((m % 25) * TwoPowerMod25(49 - Exponent(m))) % 25
    IN  r = 0 \/ 2 * r > 25

(* Number.prototype.toFixed(2) of the number num / den (den > 0): the sign *)
(* is taken first, then the integer n with n / 100 nearest to the double,  *)
(* the larger n when two are as near.                                      *)
ToFixed2(num, den) ==
    LET a == IF num < 0 THEN 0 - num ELSE num
        n == (100 * a) \div den
        twice == (200 * a) \div den
        halfway == (200 * a) % den = 0 /\ twice % 2 = 1
        h == IF halfway
             THEN IF DoubleNotBelow(twice) THEN n + 1 ELSE n
             ELSE (200 * a + den) \div (2 * den)
    IN  (IF num < 0 THEN "-" ELSE "") \o NatToString(h \div 100) \o "."
            \o Digit((h \div 10) % 10) \o Digit(h % 10)

(* The fields of the record getUserWatchlist returns for one entry. *)

PriceFormatted(currentPrice) ==
    IF Truthy(currentPrice) THEN Str("$" \o ToFixed2(currentPrice.val, 1000)) ELSE UndefinedStr

(* A slip in getUserWatchlist: the sign test is >= 0 and the truthiness    *)
(* test is for undefined only, so a change of 0 is rendered "+0.00%".      *)
ChangeFormattedZeroSigned(changePercent) ==
    IF changePercent.def
    THEN Str((IF changePercent.val >= 0 THEN "+" ELSE "") \o ToFixed2(changePercent.val, 1000) \o "%")
    ELSE UndefinedStr

ChangeFormatted(changePercent) ==
    IF Truthy(changePercent)
    THEN Str((IF changePercent.val > 0 THEN "+" ELSE "") \o ToFixed2(changePercent.val, 1000) \o "%")
    ELSE UndefinedStr

MarketCapFormatted(marketCapValue) ==
    IF Truthy(marketCapValue)
    THEN IF marketCapValue.val >= 1000 * 1000
         THEN Str("$" \o ToFixed2(marketCapValue.val, 1000 * 1000) \o "T")
         ELSE IF marketCapValue.val >= 1000
              THEN Str("$" \o ToFixed2(marketCapValue.val, 1000) \o "B")
              ELSE Str("$" \o ToFixed2(marketCapValue.val, 1) \o "M")
    ELSE UndefinedStr

PeRatioValue(financialsData) ==
    IF Truthy(financialsData.metric.peExclExtraTTM)
    THEN financialsData.metric.peExclExtraTTM
    ELSE financialsData.metric.peNormalizedAnnual

PeRatioFormatted(peRatioValue) ==
    IF Truthy(peRatioValue) THEN Str(ToFixed2(peRatioValue.val, 1000)) ELSE UndefinedStr

BareFields == {"userId", "symbol", "company", "addedAt"}

EnrichedFields ==
    BareFields \cup {"currentPrice", "changePercent", "priceFormatted", "changeFormatted",
                     "marketCap", "peRatio"}

BareRecord(item) ==
    [userId |-> item.userId, symbol |-> item.symbol, company |-> item.company,
     addedAt |-> item.addedAt]

EnrichedRecord(item, quoteData, profileData, financialsData) ==
    [userId |-> item.userId, symbol |-> item.symbol, company |-> item.company,
     addedAt |-> item.addedAt,
     currentPrice |-> quoteData.c,
     changePercent |-> quoteData.dp,
     priceFormatted |-> PriceFormatted(quoteData.c),
     changeFormatted |-> ChangeFormatted(quoteData.dp),
     marketCap |-> MarketCapFormatted(profileData.marketCapitalization),
     peRatio |-> PeRatioFormatted(PeRatioValue(financialsData))]

(* The Watchlist collection.  A document is [userId, symbol, company,      *)
(* addedAt]; the collection carries a unique index on (userId, symbol) and *)
(* addedAt defaults to the time of the insert.                             *)

DuplicateKeyCode == 11000

DuplicateKeyError == [code |-> DuplicateKeyCode]
StoreError == [code |-> 0]          \* any other failure: no code 11000

Matches(doc, userId, symbol) == doc.userId = userId /\ doc.symbol = symbol

Present(st, userId, symbol) == \E i \in 1..Len(st) : Matches(st[i], userId, symbol)

(* Watchlist.create(doc): the insert, or the duplicate-key error of the    *)
(* unique index.                                                           *)
WatchlistCreate(st, doc, time) ==
    IF Present(st, doc.userId, doc.symbol)
    THEN [ok |-> FALSE, err |-> DuplicateKeyError, store |-> st]
    ELSE [ok |-> TRUE, err |-> StoreError,
          store |-> Append(st, [userId |-> doc.userId, symbol |-> doc.symbol,
                                company |-> doc.company, addedAt |-> time])]

(* A slip in removeFromWatchlist: the filter of deleteOne lacks the symbol. *)
DeleteFirstOfUser(st, userId, symbol) ==
    IF \E i \in 1..Len(st) : st[i].userId = userId
    THEN LET i == CHOOSE j \in 1..Len(st) :
                     /\ st[j].userId = userId
                     /\ \A l \in 1..(j - 1) : st[l].userId # userId
         IN  [deletedCount |-> 1,
              store |-> SubSeq(st, 1, i - 1) \o SubSeq(st, i + 1, Len(st))]
    ELSE [deletedCount |-> 0, store |-> st]

(* Watchlist.deleteOne(filter): removes the first document that matches. *)
WatchlistDeleteOne(st, userId, symbol) ==
    IF Present(st, userId, symbol)
    THEN LET i == CHOOSE j \in 1..Len(st) :
                     /\ Matches(st[j], userId, symbol)
                     /\ \A l \in 1..(j - 1) : ~Matches(st[l], userId, symbol)
         IN  [deletedCount |-> 1,
              store |-> SubSeq(st, 1, i - 1) \o SubSeq(st, i + 1, Len(st))]
    ELSE [deletedCount |-> 0, store |-> st]

(* Watchlist.find({ userId }): the user's documents. *)
OfUser(st, userId) == SelectSeq(st, LAMBDA doc : doc.userId = userId)

WatchlistFind(st, userId) == OfUser(st, userId)

IsSortedDesc(s) == \A i, j \in 1..Len(s) : i < j => s[i].addedAt >= s[j].addedAt

Orderings(s) ==
    { [i \in 1..Len(s) |-> s[p[i]]] :
        p \in { q \in [1..Len(s) -> 1..Len(s)] : \A i, j \in 1..Len(s) : q[i] = q[j] => i = j } }

(* A slip in getUserWatchlist: .sort({ addedAt: -1 }) is left out and the  *)
(* documents come in insertion order.                                      *)
Unsorted(s) == {s}

(* .sort({ addedAt: -1 }): every order of the documents that is descending *)
(* in addedAt; documents with equal addedAt come in an unspecified order.  *)
SortByAddedAtDesc(s) == { t \in Orderings(s) : IsSortedDesc(t) }

(* The "user" collection of the identity store, read only. *)
UserDocs ==
    { [email |-> "a@x.io", id |-> "u1", oid |-> "o1"],
      [email |-> "b@x.io", id |-> "", oid |-> "u2"],
      [email |-> "c@x.io", id |-> "", oid |-> ""] }

EmailInputs == {"", "a@x.io", "b@x.io", "c@x.io", "nobody@x.io"}

(* db.collection("user").findOne({ email }): the set holding the match, or *)
(* the empty set for null.                                                 *)
UserFindOne(email) == { u \in UserDocs : u.email = email }

(* (user.id as string) || String(user._id || "") *)
ResolveUserId(user) == IF user.id # "" THEN user.id ELSE user.oid

(* What the market-data API serves.  AAPL-like data for one symbol, a      *)
(* small company without a trailing P/E for the other.                     *)

StoredSymbols == { ToUpperCase(s) : s \in SymbolInputs \ {<<>>} }

Feed(c, dp, cap, peTTM, peAnnual) ==
    [quote |-> [c |-> c, dp |-> dp],
     profile |-> [marketCapitalization |-> cap],
     financials |-> [metric |-> [peExclExtraTTM |-> peTTM, peNormalizedAnnual |-> peAnnual]]]

LargeCapFeed == Feed(Num(123400), Num(2500), Num(2500000), Num(28456), Num(30000))
SmallCapFeed == Feed(Num(50000), Num(-1200), Num(500), UndefinedNum, Num(15200))

DefaultMarket ==
    [s \in StoredSymbols |-> IF s = <<"A", "B">> THEN LargeCapFeed ELSE SmallCapFeed]

(* One invocation of a server action.  op is the action, pc the await it   *)
(* is suspended at ("done": it has returned; "thrown": it has rejected),   *)
(* io the number of store operations and fetches the number of upstream    *)
(* requests it has issued, items and tasks the locals of getUserWatchlist, *)
(* and success, message, list the value it returned.                       *)

Idle ==
    [op |-> "idle", pc |-> "idle", userId |-> "", symbol |-> <<>>, company |-> "",
     email |-> "", io |-> 0, fetches |-> 0, items |-> <<>>, tasks |-> <<>>,
     success |-> FALSE, message |-> "", list |-> <<>>]

Invoke(op, userId, symbol, company, email) ==
    [Idle EXCEPT !.op = op, !.pc = "connect", !.userId = userId, !.symbol = symbol,
                 !.company = company, !.email = email]

ReturnResult(call, success, message) ==
    [call EXCEPT !.pc = "done", !.success = success, !.message = message,
                 !.items = <<>>, !.tasks = <<>>]

ReturnList(call, list) ==
    [call EXCEPT !.pc = "done", !.list = list, !.items = <<>>, !.tasks = <<>>]

(* The synchronous head of each action: the validation, then the call of   *)
(* connectToDatabase.                                                      *)

getWatchlistSymbolsByEmail(email) ==
    IF email = ""
    THEN ReturnList(Invoke("symbols", "", <<>>, "", email), <<>>)
    ELSE Invoke("symbols", "", <<>>, "", email)

getUserWatchlist(userId) ==
    IF userId = ""
    THEN ReturnList(Invoke("list", userId, <<>>, "", ""), <<>>)
    ELSE Invoke("list", userId, <<>>, "", "")

(* A slip in addToWatchlist: the company is not validated. *)
addToWatchlistCompanyUnchecked(userId, symbol, company) ==
    IF userId = "" \/ symbol = <<>>
    THEN ReturnResult(Invoke("add", userId, symbol, company, ""), FALSE, "Missing required fields")
    ELSE Invoke("add", userId, symbol, company, "")

addToWatchlist(userId, symbol, company) ==
    IF userId = "" \/ symbol = <<>> \/ company = ""
    THEN ReturnResult(Invoke("add", userId, symbol, company, ""), FALSE, "Missing required fields")
    ELSE Invoke("add", userId, symbol, company, "")

removeFromWatchlist(userId, symbol) ==
    IF userId = "" \/ symbol = <<>>
    THEN ReturnResult(Invoke("remove", userId, symbol, "", ""), FALSE, "Missing required fields")
    ELSE Invoke("remove", userId, symbol, "", "")

(* The catch block of each action. *)

AddCatch(call, err) ==
    IF err.code = DuplicateKeyCode
    THEN ReturnResult(call, FALSE, "Stock already in watchlist")
    ELSE ReturnResult(call, FALSE, "Failed to add to watchlist")

RemoveCatch(call, err) == ReturnResult(call, FALSE, "Failed to remove from watchlist")

(* A slip in getUserWatchlist: the catch block rethrows. *)
ListCatchRethrows(call, err) == [call EXCEPT !.pc = "thrown", !.items = <<>>, !.tasks = <<>>]

ListCatch(call, err) == ReturnList(call, <<>>)

SymbolsCatch(call, err) == ReturnList(call, <<>>)

Catch(call, err) ==
    CASE call.op = "add" -> AddCatch(call, err)
      [] call.op = "remove" -> RemoveCatch(call, err)
      [] call.op = "list" -> ListCatch(call, err)
      [] call.op = "symbols" -> SymbolsCatch(call, err)

(* The statement that follows `await connectToDatabase()` in each action. *)
AfterConnect(op) ==
    CASE op = "add" -> "create"
      [] op = "remove" -> "deleteOne"
      [] op = "list" -> "find"
      [] op = "symbols" -> "findOne"

Issued(call) == [call EXCEPT !.io = @ + 1]

(* A slip in addToWatchlist: the symbol is stored as typed. *)
AddDocAsTyped(call) ==
    [userId |-> call.userId, symbol |-> call.symbol, company |-> call.company]

(* A slip in addToWatchlist: the wrong argument is stored as the company. *)
AddDocWrongCompany(call) ==
    [userId |-> call.userId, symbol |-> ToUpperCase(call.symbol), company |-> call.userId]

(* The document addToWatchlist passes to Watchlist.create. *)
AddDoc(call) ==
    [userId |-> call.userId, symbol |-> ToUpperCase(call.symbol), company |-> call.company]

(* The symbol removeFromWatchlist puts in the filter of Watchlist.deleteOne. *)
RemoveSymbol(call) == ToUpperCase(call.symbol)

(* A slip in removeFromWatchlist: deletedCount is not looked at. *)
RemoveResultUnchecked(call, deletedCount) == ReturnResult(call, TRUE, "Removed from watchlist")

(* removeFromWatchlist after deleteOne has answered. *)
RemoveResult(call, deletedCount) ==
    IF deletedCount = 0
    THEN ReturnResult(call, FALSE, "Stock not found in watchlist")
    ELSE ReturnResult(call, TRUE, "Removed from watchlist")

(* getUserWatchlist: one task of the Promise.all per item.  pc is the      *)
(* request the task awaits, failed whether its catch block has run (the    *)
(* error is logged), value what the task resolved to.                      *)

NoData == [c |-> UndefinedNum, dp |-> UndefinedNum]
NoProfile == [marketCapitalization |-> UndefinedNum]

StartTask(item) ==
    [pc |-> "quote", failed |-> FALSE, quoteData |-> NoData, profileData |-> NoProfile,
     value |-> BareRecord(item)]

SettleTask(value, failed) ==
    [pc |-> "settled", failed |-> failed, quoteData |-> NoData, profileData |-> NoProfile,
     value |-> value]

(* The awaits of a task: the response and then the body of each request. *)
TaskAwaits == {"quote", "quoteJson", "profile", "profileJson", "financials", "financialsJson"}

(* The upstream requests a task has made and not yet read the answer of:   *)
(* each request is awaited where it is made, so it is the one at the       *)
(* task's pc.                                                              *)
Outstanding(task) ==
    CASE task.pc \in {"quote", "quoteJson"} -> {"quote"}
      [] task.pc \in {"profile", "profileJson"} -> {"profile"}
      [] task.pc \in {"financials", "financialsJson"} -> {"financials"}
      [] OTHER -> {}

(* A slip in getUserWatchlist: the missing API key is not looked at. *)
ListAfterFindAlwaysEnrich(call, found, tok) ==
    [call EXCEPT !.pc = "enrich", !.items = found,
                 !.tasks = [i \in 1..Len(found) |-> StartTask(found[i])],
                 !.fetches = @ + Len(found)]

(* getUserWatchlist after find().sort() has answered with items. *)
ListAfterFind(call, found, tok) ==
    IF tok = NoToken
    THEN ReturnList(call, [i \in 1..Len(found) |-> BareRecord(found[i])])
    ELSE [call EXCEPT !.pc = "enrich", !.items = found,
                      !.tasks = [i \in 1..Len(found) |-> StartTask(found[i])],
                      !.fetches = @ + Len(found)]

(* The per-item try block after the last response: the merged record. *)
TaskReturn(item, quoteData, profileData, financialsData) ==
    SettleTask(EnrichedRecord(item, quoteData, profileData, financialsData), FALSE)

(* The per-item catch: the item with its basic data. *)
TaskCatch(item) == SettleTask(BareRecord(item), TRUE)

(* A slip in getUserWatchlist: the items whose task failed are filtered    *)
(* out of the result.                                                      *)
ListAfterAllDropFailed(call) ==
    ReturnList(call, [i \in 1..Len(SelectSeq(call.tasks, LAMBDA t : ~t.failed)) |->
                        SelectSeq(call.tasks, LAMBDA t : ~t.failed)[i].value])

(* Promise.all resolved: the values of the tasks, in the order of items. *)
ListAfterAll(call) == ReturnList(call, [i \in 1..Len(call.tasks) |-> call.tasks[i].value])

(* getWatchlistSymbolsByEmail: items.map((i) => String(i.symbol)) *)
SymbolsOf(found) == [i \in 1..Len(found) |-> found[i].symbol]

(* The environment: the clock, the database going down and coming back. *)

Tick ==
    /\ now < MaxClock
    /\ now' = now + 1
    /\ UNCHANGED <<store, storeUp, token, market, calls, nops, viewVars>>

StoreFails ==
    /\ storeUp
    /\ storeUp' = FALSE
    /\ UNCHANGED <<store, now, token, market, calls, nops, viewVars>>

StoreRecovers ==
    /\ ~storeUp
    /\ storeUp' = TRUE
    /\ UNCHANGED <<store, now, token, market, calls, nops, viewVars>>

(* A caller invokes a server action.  The invocation takes the first slot *)
(* that holds no running invocation; the value a finished invocation      *)
(* returned stays in its slot until then.                                 *)

Free(k) == calls[k].pc \in {"idle", "done", "thrown"} /\ handlers[k].pc = "idle"

Begin(k, call) ==
    /\ Free(k)
    /\ \A j \in CallIds : j < k => ~Free(j)
    /\ nops < MaxOps
    /\ calls' = [calls EXCEPT ![k] = call]
    /\ nops' = nops + 1

CallSymbols(k, email) ==
    /\ Begin(k, getWatchlistSymbolsByEmail(email))
    /\ UNCHANGED <<store, envVars, viewVars>>

CallList(k, userId) ==
    /\ Begin(k, getUserWatchlist(userId))
    /\ UNCHANGED <<store, envVars, viewVars>>

CallAdd(k, userId, symbol, company) ==
    /\ Begin(k, addToWatchlist(userId, symbol, company))
    /\ UNCHANGED <<store, envVars, viewVars>>

CallRemove(k, userId, symbol) ==
    /\ Begin(k, removeFromWatchlist(userId, symbol))
    /\ UNCHANGED <<store, envVars, viewVars>>

(* await connectToDatabase() *)

ConnectOk(k) ==
    /\ calls[k].pc = "connect"
    /\ storeUp
    /\ calls' = [calls EXCEPT ![k] = [Issued(@) EXCEPT !.pc = AfterConnect(calls[k].op)]]
    /\ UNCHANGED <<store, envVars, nops, viewVars>>

ConnectFail(k) ==
    /\ calls[k].pc = "connect"
    /\ ~storeUp
    /\ calls' = [calls EXCEPT ![k] = Catch(Issued(@), StoreError)]
    /\ UNCHANGED <<store, envVars, nops, viewVars>>

(* getWatchlistSymbolsByEmail: if (!db) throw new Error(...) *)
DbMissing(k) ==
    /\ calls[k].pc = "connect"
    /\ calls[k].op = "symbols"
    /\ storeUp
    /\ calls' = [calls EXCEPT ![k] = Catch(Issued(@), StoreError)]
    /\ UNCHANGED <<store, envVars, nops, viewVars>>

(* Any awaited query rejects. *)
QueryFail(k) ==
    /\ calls[k].pc \in {"create", "deleteOne", "find", "findOne", "findSymbols"}
    /\ ~storeUp
    /\ calls' = [calls EXCEPT ![k] = Catch(Issued(@), StoreError)]
    /\ UNCHANGED <<store, envVars, nops, viewVars>>

(* addToWatchlist: await Watchlist.create({...}) *)
Create(k) ==
    /\ calls[k].pc = "create"
    /\ storeUp
    /\ LET r == WatchlistCreate(store, AddDoc(calls[k]), now)
       IN  /\ store' = r.store
           /\ calls' = [calls EXCEPT ![k] =
                          IF r.ok THEN ReturnResult(Issued(@), TRUE, "Added to watchlist")
                                  ELSE Catch(Issued(@), r.err)]
    /\ UNCHANGED <<envVars, nops, viewVars>>

(* removeFromWatchlist: await Watchlist.deleteOne({...}) *)
DeleteOne(k) ==
    /\ calls[k].pc = "deleteOne"
    /\ storeUp
    /\ LET r == WatchlistDeleteOne(store, calls[k].userId, RemoveSymbol(calls[k]))
       IN  /\ store' = r.store
           /\ calls' = [calls EXCEPT ![k] = RemoveResult(Issued(@), r.deletedCount)]
    /\ UNCHANGED <<envVars, nops, viewVars>>

(* getUserWatchlist: await Watchlist.find({ userId }).sort({ addedAt: -1 }).lean() *)
Find(k) ==
    /\ calls[k].pc = "find"
    /\ storeUp
    /\ \E found \in SortByAddedAtDesc(WatchlistFind(store, calls[k].userId)) :
          calls' = [calls EXCEPT ![k] = ListAfterFind(Issued(@), found, token)]
    /\ UNCHANGED <<store, envVars, nops, viewVars>>

(* One task of the Promise.all: the quote, then the profile, then the      *)
(* financials, each awaited before the next request is made.  A request    *)
(* is two awaits: fetch(url) resolves with the response, then res.json()   *)
(* resolves with the body.                                                 *)

FetchQuote(k, i) ==
    /\ calls[k].pc = "enrich"
    /\ i \in 1..Len(calls[k].tasks)
    /\ calls[k].tasks[i].pc = "quote"
    /\ calls' = [calls EXCEPT ![k].tasks[i].pc = "quoteJson"]
    /\ UNCHANGED <<store, envVars, nops, viewVars>>

JsonQuote(k, i) ==
    /\ calls[k].pc = "enrich"
    /\ i \in 1..Len(calls[k].tasks)
    /\ calls[k].tasks[i].pc = "quoteJson"
    /\ calls' = [calls EXCEPT ![k].tasks[i].pc = "profile",
                              ![k].tasks[i].quoteData = market[calls[k].items[i].symbol].quote,
                              ![k].fetches = @ + 1]
    /\ UNCHANGED <<store, envVars, nops, viewVars>>

FetchProfile(k, i) ==
    /\ calls[k].pc = "enrich"
    /\ i \in 1..Len(calls[k].tasks)
    /\ calls[k].tasks[i].pc = "profile"
    /\ calls' = [calls EXCEPT ![k].tasks[i].pc = "profileJson"]
    /\ UNCHANGED <<store, envVars, nops, viewVars>>

JsonProfile(k, i) ==
    /\ calls[k].pc = "enrich"
    /\ i \in 1..Len(calls[k].tasks)
    /\ calls[k].tasks[i].pc = "profileJson"
    /\ calls' = [calls EXCEPT ![k].tasks[i].pc = "financials",
                              ![k].tasks[i].profileData = market[calls[k].items[i].symbol].profile,
                              ![k].fetches = @ + 1]
    /\ UNCHANGED <<store, envVars, nops, viewVars>>

FetchFinancials(k, i) ==
    /\ calls[k].pc = "enrich"
    /\ i \in 1..Len(calls[k].tasks)
    /\ calls[k].tasks[i].pc = "financials"
    /\ calls' = [calls EXCEPT ![k].tasks[i].pc = "financialsJson"]
    /\ UNCHANGED <<store, envVars, nops, viewVars>>

JsonFinancials(k, i) ==
    /\ calls[k].pc = "enrich"
    /\ i \in 1..Len(calls[k].tasks)
    /\ calls[k].tasks[i].pc = "financialsJson"
    /\ calls' = [calls EXCEPT ![k].tasks[i] =
                    TaskReturn(calls[k].items[i], @.quoteData, @.profileData,
                               market[calls[k].items[i].symbol].financials)]
    /\ UNCHANGED <<store, envVars, nops, viewVars>>

(* fetch or res.json() of the awaited request throws. *)
FetchThrows(k, i) ==
    /\ calls[k].pc = "enrich"
    /\ i \in 1..Len(calls[k].tasks)
    /\ calls[k].tasks[i].pc \in TaskAwaits
    /\ calls' = [calls EXCEPT ![k].tasks[i] = TaskCatch(calls[k].items[i])]
    /\ UNCHANGED <<store, envVars, nops, viewVars>>

(* A slip in getUserWatchlist: the per-item failure is not caught, so the  *)
(* Promise.all is over as soon as one task has failed.                     *)
AllSettledOrOneFailed(k) ==
    /\ calls[k].pc = "enrich"
    /\ \/ \A i \in 1..Len(calls[k].tasks) : calls[k].tasks[i].pc = "settled"
       \/ \E i \in 1..Len(calls[k].tasks) : calls[k].tasks[i].failed
    /\ calls' = [calls EXCEPT ![k] = ListAfterAll(@)]
    /\ UNCHANGED <<store, envVars, nops, viewVars>>

(* await Promise.all(...) resolves once every task has settled. *)
AllSettled(k) ==
    /\ calls[k].pc = "enrich"
    /\ \A i \in 1..Len(calls[k].tasks) : calls[k].tasks[i].pc = "settled"
    /\ calls' = [calls EXCEPT ![k] = ListAfterAll(@)]
    /\ UNCHANGED <<store, envVars, nops, viewVars>>

(* getWatchlistSymbolsByEmail: await db.collection("user").findOne({ email }) *)
FindOne(k) ==
    /\ calls[k].pc = "findOne"
    /\ storeUp
    /\ LET found == UserFindOne(calls[k].email)
       IN  calls' = [calls EXCEPT ![k] =
                IF found = {} \/ \A u \in found : ResolveUserId(u) = ""
                THEN ReturnList(Issued(@), <<>>)
                ELSE [Issued(@) EXCEPT !.pc = "findSymbols",
                                       !.userId = ResolveUserId(CHOOSE u \in found : TRUE)]]
    /\ UNCHANGED <<store, envVars, nops, viewVars>>

(* getWatchlistSymbolsByEmail: await Watchlist.find({ userId }, { symbol: 1 }).lean() *)
FindSymbols(k) ==
    /\ calls[k].pc = "findSymbols"
    /\ storeUp
    /\ calls' = [calls EXCEPT ![k] =
                    ReturnList(Issued(@), SymbolsOf(WatchlistFind(store, @.userId)))]
    /\ UNCHANGED <<store, envVars, nops, viewVars>>

(* WatchlistTable.  A handleRemove invocation h awaits the server action   *)
(* running in slot h.                                                      *)

SessionUser == "u1"

IdleHandler == [pc |-> "idle", symbol |-> <<>>]

(* removing: <<>> is null, <<s>> the symbol s. *)
NotRemoving == <<>>

Disabled(row) == removing = <<row.symbol>>

(* onClick={() => handleRemove(row.symbol)} up to the await. *)
Click(h, i) ==
    /\ i \in 1..Len(items)
    /\ ~Disabled(items[i])
    /\ Begin(h, removeFromWatchlist(SessionUser, items[i].symbol))
    /\ removing' = <<items[i].symbol>>
    /\ handlers' = [handlers EXCEPT ![h] = [pc |-> "awaiting", symbol |-> items[i].symbol]]
    /\ UNCHANGED <<store, envVars, items, toasts>>

(* A slip in handleRemove: the filter keeps the removed symbol's rows. *)
KeepSymbol(prev, symbol) == SelectSeq(prev, LAMBDA item : item.symbol = symbol)

DropSymbol(prev, symbol) == SelectSeq(prev, LAMBDA item : item.symbol # symbol)

ErrorText(message) == IF message # "" THEN message ELSE "Failed to remove"

(* handleRemove after the await: the try block, then finally. *)
Resolved(h) ==
    /\ handlers[h].pc = "awaiting"
    /\ calls[h].pc = "done"
    /\ IF calls[h].success
       THEN /\ items' = DropSymbol(items, handlers[h].symbol)
            /\ toasts' = Append(toasts, [kind |-> "success", text |-> "Removed from watchlist"])
       ELSE /\ items' = items
            /\ toasts' = Append(toasts, [kind |-> "error", text |-> ErrorText(calls[h].message)])
    /\ removing' = NotRemoving
    /\ handlers' = [handlers EXCEPT ![h] = IdleHandler]
    /\ calls' = [calls EXCEPT ![h] = Idle]
    /\ UNCHANGED <<store, envVars, nops>>

(* The call of the server action rejects on the client (the request or    *)
(* its response is lost, or the action threw): catch, then finally.       *)
Rejected(h) ==
    /\ handlers[h].pc = "awaiting"
    /\ calls[h].pc \in {"done", "thrown"}
    /\ items' = items
    /\ toasts' = Append(toasts, [kind |-> "error", text |-> "An error occurred"])
    /\ removing' = NotRemoving
    /\ handlers' = [handlers EXCEPT ![h] = IdleHandler]
    /\ calls' = [calls EXCEPT ![h] = Idle]
    /\ UNCHANGED <<store, envVars, nops>>

(* The server actions, called on an empty collection by callers that use  *)
(* the slots of S.                                                         *)

Init ==
    /\ store = <<>>
    /\ now = 0
    /\ storeUp = TRUE
    /\ token \in {NoToken, "key"}
    /\ market = DefaultMarket
    /\ calls = [k \in CallIds |-> Idle]
    /\ nops = 0
    /\ items = <<>>
    /\ removing = NotRemoving
    /\ handlers = [k \in CallIds |-> IdleHandler]
    /\ toasts = <<>>

NextOn(S) ==
    \/ Tick
    \/ StoreFails
    \/ StoreRecovers
    \/ \E k \in S, email \in EmailInputs : CallSymbols(k, email)
    \/ \E k \in S, userId \in UserInputs : CallList(k, userId)
    \/ \E k \in S, a \in AddInputs : CallAdd(k, a[1], a[2], a[3])
    \/ \E k \in S, r \in RemoveInputs : CallRemove(k, r[1], r[2])
    \/ \E k \in S : ConnectOk(k)
    \/ \E k \in S : ConnectFail(k)
    \/ \E k \in S : DbMissing(k)
    \/ \E k \in S : QueryFail(k)
    \/ \E k \in S : Create(k)
    \/ \E k \in S : DeleteOne(k)
    \/ \E k \in S : Find(k)
    \/ \E k \in S, i \in 1..MaxOps : FetchQuote(k, i)
    \/ \E k \in S, i \in 1..MaxOps : JsonQuote(k, i)
    \/ \E k \in S, i \in 1..MaxOps : FetchProfile(k, i)
    \/ \E k \in S, i \in 1..MaxOps : JsonProfile(k, i)
    \/ \E k \in S, i \in 1..MaxOps : FetchFinancials(k, i)
    \/ \E k \in S, i \in 1..MaxOps : JsonFinancials(k, i)
    \/ \E k \in S, i \in 1..MaxOps : FetchThrows(k, i)
    \/ \E k \in S : AllSettled(k)
    \/ \E k \in S : FindOne(k)
    \/ \E k \in S : FindSymbols(k)

(* One caller: each invocation starts after the one before has returned;   *)
(* the tasks of one getUserWatchlist still interleave.                     *)
Next == NextOn({1})

Spec == Init /\ [][Next]_vars

(* Callers in every slot: the invocations interleave at their awaits. *)
NextConcurrent == NextOn(CallIds)

SpecConcurrent == Init /\ [][NextConcurrent]_vars

(* The watchlist page: the table is mounted with the list of the session   *)
(* user, and rows are removed by clicks.  The collection may have changed  *)
(* since the list was loaded.                                              *)

SeedStore ==
    << [userId |-> "u1", symbol |-> <<"A", "B">>, company |-> "Apple Inc", addedAt |-> 0],
       [userId |-> "u2", symbol |-> <<"A", "B">>, company |-> "Apple Inc", addedAt |-> 0],
       [userId |-> "u1", symbol |-> <<"X">>, company |-> "Acme", addedAt |-> 1] >>

InitView ==
    /\ store \in {SeedStore, WatchlistDeleteOne(SeedStore, SessionUser, <<"X">>).store}
    /\ now = 1
    /\ storeUp = TRUE
    /\ token = NoToken
    /\ market = DefaultMarket
    /\ calls = [k \in CallIds |-> Idle]
    /\ nops = 0
    /\ \E found \in SortByAddedAtDesc(WatchlistFind(SeedStore, SessionUser)) :
          items = ListAfterFind(getUserWatchlist(SessionUser), found, NoToken).list
    /\ removing = NotRemoving
    /\ handlers = [k \in CallIds |-> IdleHandler]
    /\ toasts = <<>>

NextView ==
    \/ StoreFails
    \/ StoreRecovers
    \/ \E h \in CallIds, i \in 1..Len(SeedStore) : Click(h, i)
    \/ \E h \in CallIds : ConnectOk(h)
    \/ \E h \in CallIds : ConnectFail(h)
    \/ \E h \in CallIds : QueryFail(h)
    \/ \E h \in CallIds : DeleteOne(h)
    \/ \E h \in CallIds : Resolved(h)
    \/ \E h \in CallIds : Rejected(h)

SpecView == InitView /\ [][NextView]_vars

(***************************************************************************)
(* Properties.                                                             *)
(***************************************************************************)

(* The enrichment batch on its own: getUserWatchlist with an API key over  *)
(* the stored list, under every percent change the quote may report.  The  *)
(* upstream answers or fails every request made, and the event loop        *)
(* resumes a task and the Promise.all whose awaited promise has settled.   *)

ChangeInputs ==
    {Num(0 - 2985), Num(0 - 4), Num(0), Num(4), Num(1005), Num(8345), UndefinedNum}

Markets ==
    { [DefaultMarket EXCEPT ![<<"A", "B">>].quote.dp = dp] : dp \in ChangeInputs }

UpstreamAnswers(k, i) ==
    \/ FetchQuote(k, i)
    \/ JsonQuote(k, i)
    \/ FetchProfile(k, i)
    \/ JsonProfile(k, i)
    \/ FetchFinancials(k, i)
    \/ JsonFinancials(k, i)
    \/ FetchThrows(k, i)

InitEnrich ==
    /\ store = SeedStore
    /\ now = 1
    /\ storeUp = TRUE
    /\ token = "key"
    /\ market \in Markets
    /\ calls = [k \in CallIds |-> Idle]
    /\ nops = 0
    /\ items = <<>>
    /\ removing = NotRemoving
    /\ handlers = [k \in CallIds |-> IdleHandler]
    /\ toasts = <<>>

NextEnrich ==
    \/ \E userId \in UserInputs : CallList(1, userId)
    \/ ConnectOk(1)
    \/ Find(1)
    \/ \E i \in 1..MaxOps : FetchQuote(1, i)
    \/ \E i \in 1..MaxOps : JsonQuote(1, i)
    \/ \E i \in 1..MaxOps : FetchProfile(1, i)
    \/ \E i \in 1..MaxOps : JsonProfile(1, i)
    \/ \E i \in 1..MaxOps : FetchFinancials(1, i)
    \/ \E i \in 1..MaxOps : JsonFinancials(1, i)
    \/ \E i \in 1..MaxOps : FetchThrows(1, i)
    \/ AllSettled(1)

SpecEnrich ==
    /\ InitEnrich
    /\ [][NextEnrich]_vars
    /\ \A i \in 1..MaxOps : WF_vars(UpstreamAnswers(1, i))
    /\ WF_vars(AllSettled(1))

(* The invocation in slot k takes the step from the await `from` to `to`. *)
Steps(k, from, to) == calls[k].pc = from /\ calls'[k].pc \in to

Occurrences(seq, userId, symbol) ==
    Cardinality({ i \in 1..Len(seq) :
                    seq[i].userId = userId /\ ToUpperCase(seq[i].symbol) = symbol })

KeyOf(call) == ToUpperCase(call.symbol)

UniquePairs == \A userId \in UserInputs, symbol \in StoredSymbols :
                  Occurrences(store, userId, symbol) <= 1

DuplicateAddRejected(k) ==
    ( /\ calls[k].op = "add"
      /\ Steps(k, "create", {"done", "thrown"})
      /\ storeUp
      /\ Present(store, calls[k].userId, KeyOf(calls[k])) )
    => /\ calls'[k].pc = "done"
       /\ ~calls'[k].success
       /\ calls'[k].message = "Stock already in watchlist"
       /\ store' = store

(* What getUserWatchlist has read, once find has answered. *)
Shown(call) == IF call.pc = "done" THEN call.list ELSE call.items

ListShowsEachPairOnce(k) ==
    /\ ( /\ calls[k].op = "list"
         /\ Steps(k, "find", {"enrich", "done"})
         /\ storeUp )
       => \A symbol \in StoredSymbols :
             Occurrences(Shown(calls'[k]), calls[k].userId, symbol)
                = Occurrences(store, calls[k].userId, symbol)
    /\ ( /\ calls[k].op = "list"
         /\ Steps(k, "enrich", {"done"}) )
       => \A symbol \in StoredSymbols :
             Occurrences(calls'[k].list, calls[k].userId, symbol)
                = Occurrences(calls[k].items, calls[k].userId, symbol)

(* C1: under every interleaving of addToWatchlist and removeFromWatchlist  *)
(* the collection holds at most one entry per (userId, uppercased symbol); *)
(* an addToWatchlist whose insert reaches the store while the pair is      *)
(* present returns success=false with "Stock already in watchlist" and     *)
(* leaves the collection as it was; and getUserWatchlist shows every       *)
(* stored pair of the user exactly once.                                   *)
AtMostOneEntryPerPair ==
    /\ []UniquePairs
    /\ [][\A k \in CallIds : DuplicateAddRejected(k) /\ ListShowsEachPairOnce(k)]_vars

(* C1 witness: two addToWatchlist invocations of the same pair were in     *)
(* flight together; one succeeded, the other was told the stock is already *)
(* in the watchlist, and the collection holds the pair once.               *)
ConcurrentDuplicateAdd ==
    \E k, j \in CallIds :
        /\ k # j
        /\ calls[k].op = "add" /\ calls[k].pc = "done" /\ calls[k].success
        /\ calls[j].op = "add" /\ calls[j].pc = "done"
        /\ calls[j].message = "Stock already in watchlist"
        /\ calls[j].userId = calls[k].userId
        /\ KeyOf(calls[j]) = KeyOf(calls[k])
        /\ calls[j].symbol # calls[k].symbol
        /\ Occurrences(store, calls[k].userId, KeyOf(calls[k])) = 1

AddSucceeds(k) ==
    /\ ( /\ calls[k].op = "add"
         /\ calls[k].pc = "connect"
         /\ calls'[k] # calls[k]
         /\ storeUp )
       => calls'[k].pc = "create"
    /\ ( /\ calls[k].op = "add"
         /\ Steps(k, "create", {"done", "thrown"})
         /\ storeUp
         /\ ~Present(store, calls[k].userId, KeyOf(calls[k])) )
       => /\ calls'[k].pc = "done"
          /\ calls'[k].success
          /\ \E i \in 1..Len(store') :
                /\ store'[i].userId = calls[k].userId
                /\ store'[i].symbol = KeyOf(calls[k])
                /\ store'[i].company = calls[k].company

Shows(seq, doc) ==
    \E j \in 1..Len(seq) :
        /\ seq[j].userId = doc.userId
        /\ seq[j].symbol = doc.symbol
        /\ seq[j].company = doc.company

ListContainsStored(k) ==
    /\ ( /\ calls[k].op = "list"
         /\ Steps(k, "find", {"enrich", "done", "thrown"})
         /\ storeUp )
       => \A i \in 1..Len(store) :
             store[i].userId = calls[k].userId => Shows(Shown(calls'[k]), store[i])
    /\ ( /\ calls[k].op = "list"
         /\ Steps(k, "enrich", {"done", "thrown"}) )
       => /\ calls'[k].pc = "done"
          /\ \A i \in 1..Len(calls[k].items) : Shows(calls'[k].list, calls[k].items[i])

(* C2: an addToWatchlist with non-empty fields whose connection and insert *)
(* are answered while the pair (userId, uppercase(symbol)) is absent       *)
(* returns success=true and leaves an entry with the uppercased symbol and *)
(* the company as given; and getUserWatchlist returns every entry the      *)
(* collection holds for the user, symbol and company as stored.            *)
AddThenListShowsEntry ==
    [][\A k \in CallIds : AddSucceeds(k) /\ ListContainsStored(k)]_vars

(* C2 witness: with the API key set, getUserWatchlist("u1") has returned   *)
(* the entry that addToWatchlist("u1", "ab", "Apple Inc") stored.          *)
ListedAfterAdd ==
    \E k \in CallIds :
        /\ calls[k].op = "list" /\ calls[k].pc = "done" /\ calls[k].userId = "u1"
        /\ token # NoToken
        /\ Shows(calls[k].list, [userId |-> "u1", symbol |-> <<"A", "B">>, company |-> "Apple Inc"])
        /\ Shows(store, [userId |-> "u1", symbol |-> <<"A", "B">>, company |-> "Apple Inc"])

Others(seq, userId, symbol) == SelectSeq(seq, LAMBDA doc : ~Matches(doc, userId, symbol))

RemoveFrame(k) ==
    ( /\ calls[k].op = "remove"
      /\ calls[k].pc \in {"connect", "deleteOne"}
      /\ calls'[k] # calls[k] )
    => /\ Others(store', calls[k].userId, KeyOf(calls[k]))
            = Others(store, calls[k].userId, KeyOf(calls[k]))
       /\ Occurrences(store', calls[k].userId, KeyOf(calls[k]))
            <= Occurrences(store, calls[k].userId, KeyOf(calls[k]))

RemoveAbsent(k) ==
    ( /\ calls[k].op = "remove"
      /\ Steps(k, "deleteOne", {"done", "thrown"})
      /\ storeUp
      /\ ~Present(store, calls[k].userId, KeyOf(calls[k])) )
    => /\ calls'[k].pc = "done"
       /\ ~calls'[k].success
       /\ calls'[k].message = "Stock not found in watchlist"
       /\ store' = store

(* C3: a removeFromWatchlist whose delete is answered while the pair       *)
(* (userId, uppercase(symbol)) is absent returns success=false with        *)
(* "Stock not found in watchlist" and leaves the collection as it was; and *)
(* no step of removeFromWatchlist changes, adds or reorders an entry other *)
(* than the one matching (userId, uppercase(symbol)).                      *)
RemoveTouchesOnlyItsPair ==
    [][\A k \in CallIds : RemoveAbsent(k) /\ RemoveFrame(k)]_vars

(* C3 witness: after addToWatchlist calls, one after the other, a          *)
(* removeFromWatchlist of a pair that is not stored has returned "not      *)
(* found" and the entries of the collection are still there.               *)
RemoveOfAbsentPair ==
    /\ calls[1].op = "remove" /\ calls[1].pc = "done"
    /\ calls[1].message = "Stock not found in watchlist"
    /\ \A k \in CallIds \ {1} : calls[k].op = "idle"
    /\ Len(store) >= 2
    /\ \E i \in 1..Len(store) : store[i].userId = calls[1].userId

RemoveSuccessMeansGone(k) ==
    ( /\ calls[k].op = "remove"
      /\ Steps(k, "deleteOne", {"done"})
      /\ calls'[k].success )
    => /\ Present(store, calls[k].userId, KeyOf(calls[k]))
       /\ ~Present(store', calls[k].userId, KeyOf(calls[k]))

RepeatedRemoveNotFound(k) ==
    ( /\ calls[k].op = "remove"
      /\ Steps(k, "deleteOne", {"done", "thrown"})
      /\ ~Present(store, calls[k].userId, KeyOf(calls[k])) )
    => /\ calls'[k].pc = "done"
       /\ ~calls'[k].success
       /\ storeUp => calls'[k].message = "Stock not found in watchlist"

OnlyAddRevives ==
    \A userId \in UserInputs, symbol \in StoredSymbols :
        (~Present(store, userId, symbol) /\ Present(store', userId, symbol))
        => \E k \in CallIds :
              /\ calls[k].op = "add"
              /\ Steps(k, "create", {"done"})
              /\ calls[k].userId = userId
              /\ KeyOf(calls[k]) = symbol
              /\ calls'[k].success

(* C4: a removeFromWatchlist that returns success=true leaves the pair     *)
(* (userId, uppercase(symbol)) absent; the pair stays absent until an      *)
(* addToWatchlist of that pair succeeds; and a removeFromWatchlist of an   *)
(* absent pair, in any letter casing, never returns success: it returns    *)
(* "Stock not found in watchlist" when the store answers.                  *)
RemoveIsIdempotentNegative ==
    [][/\ \A k \in CallIds : RemoveSuccessMeansGone(k) /\ RepeatedRemoveNotFound(k)
       /\ OnlyAddRevives]_vars

(* C4 witness: two removeFromWatchlist invocations of the same pair, in    *)
(* different letter casing: the first delete succeeded, the repeated one   *)
(* returned "not found".                                                   *)
RepeatedRemove ==
    \E k, j \in CallIds :
        /\ k # j
        /\ calls[k].op = "remove" /\ calls[k].pc = "done" /\ calls[k].success
        /\ calls[j].op = "remove" /\ calls[j].pc = "done" /\ ~calls[j].success
        /\ calls[j].message = "Stock not found in watchlist"
        /\ calls[j].userId = calls[k].userId
        /\ KeyOf(calls[j]) = KeyOf(calls[k])
        /\ calls[j].symbol # calls[k].symbol

LaterAddedFirst(seq) ==
    \A i, j \in 1..Len(seq) : seq[i].addedAt > seq[j].addedAt => i < j

(* C5: what getUserWatchlist reads and what it returns is ordered by       *)
(* addedAt descending: of two entries, the one with the later addedAt      *)
(* comes first, in whatever order the per-symbol tasks settle.             *)
ListIsNewestFirst ==
    \A k \in CallIds :
        calls[k].op = "list" => LaterAddedFirst(calls[k].items) /\ LaterAddedFirst(calls[k].list)

(* C5 witness: with the API key set, getUserWatchlist has returned two     *)
(* enriched records, the one added later first.                            *)
TwoEntriesListed ==
    \E k \in CallIds :
        /\ calls[k].op = "list" /\ calls[k].pc = "done"
        /\ token # NoToken
        /\ Len(calls[k].list) = 2
        /\ calls[k].list[1].addedAt > calls[k].list[2].addedAt
        /\ \A i \in 1..2 : DOMAIN calls[k].list[i] = EnrichedFields

Bare(r) == [f \in BareFields |-> r[f]]

TaskFailureIsolated(k) ==
    /\ ( /\ calls[k].op = "list"
         /\ calls[k].pc = "enrich"
         /\ calls'[k] # calls[k] )
       => /\ calls'[k].pc \in {"enrich", "done"}
          /\ calls'[k].pc = "enrich" =>
                /\ calls'[k].items = calls[k].items
                /\ Len(calls'[k].tasks) = Len(calls[k].tasks)
                /\ Cardinality({ i \in 1..Len(calls[k].tasks) :
                                    calls'[k].tasks[i] # calls[k].tasks[i] }) = 1
                /\ \A i \in 1..Len(calls[k].tasks) :
                      calls[k].tasks[i].pc = "settled" => calls'[k].tasks[i] = calls[k].tasks[i]
          /\ calls'[k].pc = "done" =>
                /\ Len(calls'[k].list) = Len(calls[k].items)
                /\ \A i \in 1..Len(calls[k].items) :
                      /\ Bare(calls'[k].list[i]) = BareRecord(calls[k].items[i])
                      /\ DOMAIN calls'[k].list[i] =
                            IF calls[k].tasks[i].failed THEN BareFields ELSE EnrichedFields

(* C6: while getUserWatchlist enriches, each step settles or advances one  *)
(* task and leaves the others as they are; a task whose upstream call      *)
(* throws neither ends nor empties the batch; and the returned list has    *)
(* the length and order of the entries read, the record of a failed task   *)
(* with the bare fields only and every other record with the enriched      *)
(* fields.                                                                 *)
OneSymbolFailureIsIsolated ==
    [][\A k \in CallIds : TaskFailureIsolated(k)]_vars

(* C6 witness: getUserWatchlist has returned two records, one with the     *)
(* bare fields (its upstream call threw) and one enriched.                 *)
OneBareOneEnriched ==
    \E k \in CallIds :
        /\ calls[k].op = "list" /\ calls[k].pc = "done"
        /\ Len(calls[k].list) = 2
        /\ \E i, j \in 1..2 :
              /\ DOMAIN calls[k].list[i] = BareFields
              /\ DOMAIN calls[k].list[j] = EnrichedFields
              /\ calls[k].list[j].priceFormatted.def

NoKeyNoFetch(k) ==
    (calls[k].op = "list" /\ token = NoToken)
    => /\ calls[k].fetches = 0
       /\ calls[k].pc # "enrich"
       /\ \A i \in 1..Len(calls[k].list) : DOMAIN calls[k].list[i] = BareFields

NoKeyListsStore(k) ==
    ( /\ calls[k].op = "list"
      /\ token = NoToken
      /\ Steps(k, "find", {"enrich", "done", "thrown"})
      /\ storeUp )
    => /\ calls'[k].pc = "done"
       /\ \E found \in SortByAddedAtDesc(OfUser(store, calls[k].userId)) :
             calls'[k].list = [i \in 1..Len(found) |-> BareRecord(found[i])]

(* C7: with no API key configured, getUserWatchlist issues no upstream     *)
(* request and returns one record per entry stored for the user, newest    *)
(* first, each with the fields userId, symbol, company and addedAt only.   *)
NoKeyReturnsBareEntries ==
    /\ [](\A k \in CallIds : NoKeyNoFetch(k))
    /\ [][\A k \in CallIds : NoKeyListsStore(k)]_vars

(* C7 witness: with no API key, getUserWatchlist has returned two records. *)
TwoBareEntriesListed ==
    \E k \in CallIds :
        /\ token = NoToken
        /\ calls[k].op = "list" /\ calls[k].pc = "done"
        /\ Len(calls[k].list) = 2
        /\ calls[k].list[1].addedAt > calls[k].list[2].addedAt

RejectedUnread(call) ==
    /\ call.pc = "done"
    /\ call.io = 0
    /\ call.fetches = 0

InvalidAdd(call) ==
    call.op = "add" /\ (call.userId = "" \/ call.symbol = <<>> \/ call.company = "")

InvalidRemove(call) ==
    call.op = "remove" /\ (call.userId = "" \/ call.symbol = <<>>)

InvalidRead(call) ==
    \/ call.op = "list" /\ call.userId = ""
    \/ call.op = "symbols" /\ call.email = ""

RefusalLeavesStore(k) ==
    ( /\ calls'[k] # calls[k]
      /\ InvalidAdd(calls'[k]) \/ InvalidRemove(calls'[k]) \/ InvalidRead(calls'[k]) )
    => store' = store

UnreadAndRefused ==
    \A k \in CallIds :
        /\ (InvalidAdd(calls[k]) \/ InvalidRemove(calls[k]))
              => /\ RejectedUnread(calls[k])
                 /\ ~calls[k].success
                 /\ calls[k].message = "Missing required fields"
        /\ InvalidRead(calls[k])
              => /\ RejectedUnread(calls[k])
                 /\ calls[k].list = <<>>

(* C8: an addToWatchlist with an empty userId, symbol or company and a     *)
(* removeFromWatchlist with an empty userId or symbol have returned        *)
(* success=false "Missing required fields", and a getUserWatchlist with an *)
(* empty userId and a getWatchlistSymbolsByEmail with an empty email have  *)
(* returned the empty list, each without a connection, a query or an       *)
(* upstream request, and the collection is as it was before the call.      *)
ValidationBeforeIO ==
    /\ []UnreadAndRefused
    /\ [][\A k \in CallIds : RefusalLeavesStore(k)]_vars

(* C8 witness: after an entry was stored, addToWatchlist with an empty     *)
(* company was refused without a connection or a query.                    *)
RefusedWithoutIO ==
    \E k \in CallIds :
        /\ calls[k].op = "add" /\ calls[k].company = ""
        /\ calls[k].userId # "" /\ calls[k].symbol # <<>>
        /\ calls[k].pc = "done" /\ calls[k].io = 0
        /\ calls[k].message = "Missing required fields"
        /\ store # <<>>

WellFormedResult(call) ==
    /\ call.pc # "thrown"
    /\ (call.pc = "done" /\ call.op = "add") =>
          \/ call.success /\ call.message = "Added to watchlist"
          \/ ~call.success /\ call.message \in {"Missing required fields",
                                                "Stock already in watchlist",
                                                "Failed to add to watchlist"}
    /\ (call.pc = "done" /\ call.op = "remove") =>
          \/ call.success /\ call.message = "Removed from watchlist"
          \/ ~call.success /\ call.message \in {"Missing required fields",
                                                "Stock not found in watchlist",
                                                "Failed to remove from watchlist"}

StoreFailureMapped(k) ==
    ( /\ calls[k].pc \in {"connect", "create", "deleteOne", "find", "findOne", "findSymbols"}
      /\ ~storeUp
      /\ calls'[k] # calls[k] )
    => /\ calls'[k].pc = "done"
       /\ store' = store
       /\ calls[k].op \in {"list", "symbols"} => calls'[k].list = <<>>
       /\ calls[k].op = "add" =>
             ~calls'[k].success /\ calls'[k].message = "Failed to add to watchlist"
       /\ calls[k].op = "remove" =>
             ~calls'[k].success /\ calls'[k].message = "Failed to remove from watchlist"

UpstreamFailureKept(k) ==
    ( /\ calls[k].pc = "enrich"
      /\ calls'[k] # calls[k] )
    => calls'[k].pc \in {"enrich", "done"}

(* C9: no invocation of the four server actions ever rejects: whatever the *)
(* input, a failed connection or query ends getWatchlistSymbolsByEmail and *)
(* getUserWatchlist with the empty list and addToWatchlist and             *)
(* removeFromWatchlist with success=false and their generic message, a     *)
(* failed upstream call leaves getUserWatchlist running, and every value   *)
(* returned by addToWatchlist and removeFromWatchlist is a {success,       *)
(* message} of the action.                                                 *)
ActionsAreTotal ==
    /\ [](\A k \in CallIds : WellFormedResult(calls[k]))
    /\ [][\A k \in CallIds : StoreFailureMapped(k) /\ UpstreamFailureKept(k)]_vars

(* C9 witness: the database is down and getUserWatchlist, called after the *)
(* user's entries were stored, has returned the empty list.                *)
EmptyListOnStoreFailure ==
    /\ ~storeUp
    /\ calls[1].op = "list" /\ calls[1].pc = "done" /\ calls[1].io > 0
    /\ calls[1].list = <<>>
    /\ \A k \in CallIds \ {1} : calls[k].op = "idle"
    /\ OfUser(store, calls[1].userId) # <<>>

Settles(h) == handlers[h].pc = "awaiting" /\ handlers'[h].pc = "idle"

Succeeded(h) == calls[h].pc = "done" /\ calls[h].success

WithoutSymbol(rows, symbol) == SelectSeq(rows, LAMBDA row : row.symbol # symbol)

ErrorShown ==
    /\ Len(toasts') = Len(toasts) + 1
    /\ SubSeq(toasts', 1, Len(toasts)) = toasts
    /\ toasts'[Len(toasts')].kind = "error"

ItemsChangeOnlyOnSuccess ==
    items' # items =>
        \E h \in CallIds :
            /\ Settles(h)
            /\ Succeeded(h)
            /\ items' = WithoutSymbol(items, handlers[h].symbol)

SettleOutcome(h) ==
    Settles(h) =>
        /\ ~Succeeded(h) => items' = items /\ ErrorShown
        /\ Succeeded(h) =>
              \/ items' = WithoutSymbol(items, handlers[h].symbol) /\ ~ErrorShown
              \/ items' = items /\ ErrorShown

(* C10: in WatchlistTable, items changes only in the step in which a       *)
(* handleRemove whose removeFromWatchlist returned success=true resumes,   *)
(* and then exactly the rows of the removed symbol are dropped, the others *)
(* keeping their order; when the call returned success=false or rejected,  *)
(* items is left as it was and an error notification is shown.             *)
ViewChangesOnlyOnSuccess ==
    [][ItemsChangeOnlyOnSuccess /\ \A h \in CallIds : SettleOutcome(h)]_vars

(* C10 witness: one removal failed and one succeeded: the table shows an   *)
(* error and a success notification and has lost exactly one of its rows.  *)
RowDroppedAfterSuccess ==
    /\ Len(items) = 1
    /\ \E i, j \in 1..Len(toasts) : toasts[i].kind = "error" /\ toasts[j].kind = "success"
    /\ \A h \in CallIds : handlers[h].pc = "idle"

(* C11: for every entry the quote, profile and metrics requests are issued *)
(* concurrently: while a symbol's quote request awaits its response, that  *)
(* symbol's profile and metrics requests have been started as well.        *)
ThreeRequestsIssuedTogether ==
    \A k \in CallIds :
        calls[k].pc = "enrich" =>
            \A i \in 1..Len(calls[k].tasks) :
                "quote" \in Outstanding(calls[k].tasks[i]) =>
                    {"profile", "financials"} \subseteq Outstanding(calls[k].tasks[i])

(* The batch of call k starts: a task per stored item, each with its first *)
(* request made.                                                           *)
BatchStartsAll(k) ==
    calls[k].pc # "enrich" /\ calls'[k].pc = "enrich" =>
        /\ Len(calls'[k].tasks) = Len(calls'[k].items)
        /\ calls'[k].items \in SortByAddedAtDesc(WatchlistFind(store, calls[k].userId))
        /\ \A i \in 1..Len(calls'[k].tasks) : Outstanding(calls'[k].tasks[i]) # {}

(* While the batch runs, a task that has not settled can take its next     *)
(* response whatever the other tasks have done.                            *)
TasksIndependent(k) ==
    calls[k].pc = "enrich" =>
        \A i \in 1..Len(calls[k].tasks) :
            calls[k].tasks[i].pc # "settled" => ENABLED UpstreamAnswers(k, i)

(* The batch of call k ends only with every task settled, and returns one  *)
(* record per item.                                                        *)
BatchEndsAfterAll(k) ==
    calls[k].pc = "enrich" /\ calls'[k].pc # "enrich" =>
        /\ \A i \in 1..Len(calls[k].tasks) : calls[k].tasks[i].pc = "settled"
        /\ calls'[k].pc = "done"
        /\ Len(calls'[k].list) = Len(calls[k].items)

(* A task failing neither ends the batch nor touches another task. *)
FailureCancelsNothing(k) ==
    \A i \in 1..Len(calls[k].tasks) :
        calls[k].pc = "enrich" /\ ~calls[k].tasks[i].failed
            /\ Len(calls'[k].tasks) = Len(calls[k].tasks) /\ calls'[k].tasks[i].failed =>
                /\ calls'[k].pc = "enrich"
                /\ \A j \in 1..Len(calls[k].tasks) :
                      j # i => calls'[k].tasks[j] = calls[k].tasks[j]

(* C12: the enrichment starts the tasks of all entries together with no    *)
(* ordering between them, returns only after every task has settled, a     *)
(* failing task neither ends the batch early nor cancels another task,     *)
(* and when every upstream request is answered or fails the batch          *)
(* completes.                                                              *)
BatchWaitsForAllAndCompletes ==
    /\ []TasksIndependent(1)
    /\ [][BatchStartsAll(1) /\ BatchEndsAfterAll(1) /\ FailureCancelsNothing(1)]_vars
    /\ (calls[1].pc = "enrich" ~> calls[1].pc = "done")

(* C12 witness: one task has failed while the request of another is still  *)
(* outstanding, and the batch is still running.                            *)
OneFailedOtherOutstanding ==
    /\ calls[1].pc = "enrich"
    /\ \E i, j \in 1..Len(calls[1].tasks) :
          /\ calls[1].tasks[i].failed
          /\ Outstanding(calls[1].tasks[j]) # {}

(* The magnitude of v / 1000 to two decimals behind the sign given. *)
SignedPercent(sign, v) ==
    Str(sign \o ToFixed2(IF v < 0 THEN 0 - v ELSE v, 1000) \o "%")

(* The sign rule for the record r of a symbol whose quote reported the     *)
(* percent change dp.                                                      *)
SignRule(r, dp) ==
    /\ r.changePercent = dp
    /\ dp.def /\ dp.val > 0 => r.changeFormatted = SignedPercent("+", dp.val)
    /\ dp.def /\ dp.val < 0 => r.changeFormatted = SignedPercent("-", dp.val)
    /\ dp.def /\ dp.val = 0 =>
          /\ r.changeFormatted # Str("+0.00%")
          /\ r.changeFormatted = UndefinedStr

(* C13: in the records getUserWatchlist returns, a positive percent change *)
(* is formatted with a leading "+", a negative one without it, and a       *)
(* change of exactly 0 is falsy: its formatted change carries no "+" and   *)
(* is never "+0.00%".                                                      *)
PercentChangeSignRule ==
    \A k \in CallIds :
        calls[k].op = "list" /\ calls[k].pc = "done" =>
            \A i \in 1..Len(calls[k].list) :
                "changePercent" \in DOMAIN calls[k].list[i] =>
                    SignRule(calls[k].list[i], market[calls[k].list[i].symbol].quote.dp)

(* C13 witness: a returned list with an enriched record whose percent      *)
(* change is exactly 0 next to one whose change is negative.               *)
ZeroChangeListed ==
    /\ calls[1].op = "list" /\ calls[1].pc = "done"
    /\ \E i, j \in 1..Len(calls[1].list) :
          /\ "changePercent" \in DOMAIN calls[1].list[i]
          /\ calls[1].list[i].changePercent = Num(0)
          /\ "changePercent" \in DOMAIN calls[1].list[j]
          /\ calls[1].list[j].changePercent.val < 0

(* The handleRemove invocations whose removeFromWatchlist is outstanding. *)
Awaiting == { h \in CallIds : handlers[h].pc = "awaiting" }

OutstandingRowDisabled ==
    \A h \in Awaiting :
        \A i \in 1..Len(items) : items[i].symbol = handlers[h].symbol => Disabled(items[i])

NoSecondCallForSymbol ==
    \A g, h \in Awaiting : handlers[g].symbol = handlers[h].symbol => g = h

ClearedOnlyWhenNoneOutstanding == removing = NotRemoving => Awaiting = {}

(* C14: in WatchlistTable, under any interleaving of Remove clicks on      *)
(* several rows, a row whose removal request is outstanding stays marked   *)
(* as removing (its button disabled) until the request settles, no second  *)
(* removeFromWatchlist call for a symbol is started while the first is     *)
(* outstanding, and the marker is cleared only when no request is          *)
(* outstanding.                                                            *)
RemovingGuardsOutstandingRows ==
    /\ OutstandingRowDisabled
    /\ NoSecondCallForSymbol
    /\ ClearedOnlyWhenNoneOutstanding

====
